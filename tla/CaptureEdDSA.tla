---------------------------- MODULE CaptureEdDSA ----------------------------
(***************************************************************************)
(* The live capture automaton of pfOSSHAttackEdDSA: recordAttackTrace      *)
(* (cmd/pfOSSHAttackEdDSA/attack.go) together with the hypervisor page     *)
(* tracking it drives, the victim whose faults it observes and the trigger *)
(* goroutine that runs the victim and cancels the context.                 *)
(*                                                                         *)
(* Control is kept whole: one loop iteration of recordAttackTrace (poll,   *)
(* print/save step, re-track step, ack) is one atomic action, since no     *)
(* other goroutine changes automaton state and the faulting vCPU stays     *)
(* blocked until the ack. Every ioctl that can fail is a disjunct that     *)
(* returns an error. Data are abstracted: a page address is a model value, *)
(* a snapshot is a flag on the recorded event, and the victim's position   *)
(* is a ghost counter vt carried in every recorded event (field tog).      *)
(*                                                                         *)
(* Victim and hypervisor are environment (the spec, sections 4.2 and 6):   *)
(* the victim executes CT and FE alternately; a tracked page faults once,  *)
(* which clears its tracking, and the vCPU waits for the ack and then      *)
(* retries the instruction. Data pages fault only while access tracked.    *)
(***************************************************************************)
EXTENDS Naturals, Sequences, FiniteSets, StackLocator

CONSTANTS
  CT,          \* attackConfig.chosetTGPA
  FE,          \* attackConfig.fe64GPA
  DataPages,   \* the other guest pages; the stack buffer is one of them
  NoPage,      \* stackBufferGPA == 0: no stack buffer located yet
  NoEvent,     \* no fault delivered and waiting for its ack
  Cycles       \* iterations of the victim's main loop (MainLoopCycles)

ASSUME PagesAssumption ==
  /\ CT # FE
  /\ {CT, FE} \cap DataPages = {}
  /\ NoPage \notin DataPages \cup {CT, FE}

ASSUME CyclesAssumption == Cycles \in Nat \ {0}

Pages == {CT, FE} \cup DataPages

\* ignoreFaultSequence and attackFaultSequence: CT and FE alternating.
IgnoreSeq == [i \in 1 .. 4 |-> IF i % 2 = 1 THEN CT ELSE FE]
AttackSeq == [i \in 1 .. 22 |-> IF i % 2 = 1 THEN CT ELSE FE]

\* The keys of idxIsSavePoint (0-based sequence indices).
SavePoints == {1, 3, 5, 7, 9, 11, 13, 15, 19, 20}

IdxStartWriteTrack == 1
IdxStopWriteTrack == IdxStartWriteTrack + 1

(***************************************************************************)
(* Environment: the victim toggles CT/FE through the ignore sequence and   *)
(* then Cycles times through the attack sequence. Toggle(n) is the page of *)
(* its n-th toggle (1-based).                                              *)
(***************************************************************************)
TotalToggles == Len(IgnoreSeq) + Cycles * Len(AttackSeq)
Toggle(n) == IF n <= Len(IgnoreSeq) THEN IgnoreSeq[n]
             ELSE AttackSeq[((n - Len(IgnoreSeq) - 1) % Len(AttackSeq)) + 1]

Fault == [page : Pages, write : BOOLEAN, rz : BOOLEAN]
TraceEntry == [page : {CT, FE}, snap : BOOLEAN, tog : 0 .. TotalToggles]

\* NoEvent stands for "no event": it is not a fault record.
ASSUME NoEventAssumption == NoEvent \notin Fault

VARIABLES
  status,          \* "init", "running", then how recordAttackTrace ended
  seqIdx,          \* sequenceIDX
  cycle,           \* sequenceCycleCount
  finishedIgnore,  \* finishedIgnoreSequence (faultSequence is derived)
  writeTrack,      \* writeTrackInProgress
  burst,           \* accessTrackEvents
  stackBuf,        \* stackBufferGPA
  trace,           \* attackEvents
  execArmed,       \* pages tracked in PageTrackExec mode
  accessArmed,     \* pages tracked in PageTrackAccess mode
  pending,         \* the delivered, not yet acked fault
  vt,              \* toggles the victim has completed
  vretry,          \* the victim must re-execute a toggle that faulted
  trig             \* trigger goroutine: "idle", "running", then "done" or "failed"

autVars == <<status, seqIdx, cycle, finishedIgnore, writeTrack, burst, stackBuf, trace>>
envVars == <<execArmed, accessArmed, pending, vt, vretry, trig>>
vars == <<autVars, envVars>>

FaultSeq == IF finishedIgnore THEN AttackSeq ELSE IgnoreSeq

Init ==
  /\ status = "init"
  /\ seqIdx = 0
  /\ cycle = 0
  /\ finishedIgnore = FALSE
  /\ writeTrack = FALSE
  /\ burst = <<>>
  /\ stackBuf = NoPage
  /\ trace = <<>>
  /\ execArmed = {}
  /\ accessArmed = {}
  /\ pending = NoEvent
  /\ vt = 0
  /\ vretry = FALSE
  /\ trig = "idle"

(***************************************************************************)
(* Initial CmdTrackPage(chosetTGPA, Exec), then the trigger goroutine is   *)
(* started. If the ioctl fails recordAttackTrace returns an error.         *)
(***************************************************************************)
Start ==
  /\ status = "init"
  /\ status' = "running"
  /\ execArmed' = {CT}
  /\ trig' = "running"
  /\ UNCHANGED <<seqIdx, cycle, finishedIgnore, writeTrack, burst, stackBuf,
                 trace, accessArmed, pending, vt, vretry>>

StartFails ==
  /\ status = "init"
  /\ status' = "failed"
  /\ UNCHANGED <<seqIdx, cycle, finishedIgnore, writeTrack, burst, stackBuf,
                 trace, envVars>>

(***************************************************************************)
(* The trigger goroutine's deferred cancel() has run: the victim finished  *)
(* ("done") or Execute returned an error first ("failed").                 *)
(***************************************************************************)
Cancelled == trig \in {"done", "failed"}

(***************************************************************************)
(* One iteration of the main loop starts with WaitForEventBlocking: it     *)
(* returns ErrCtxCancelled once ctx is done, and otherwise the delivered   *)
(* event.                                                                  *)
(***************************************************************************)
Polled == status = "running" /\ ~Cancelled /\ pending # NoEvent

IsToggle(ev) == ev.page \in {CT, FE}

\* Mutant: the read does not wait for the stack buffer to be located.
TakesSnapshotEarly(ev) ==
  /\ IsToggle(ev)
  /\ seqIdx \in SavePoints
  /\ AttackSeq[seqIdx + 1] = ev.page

\* Condition of the memory read in the print/save step (line 109).
TakesSnapshot(ev) ==
  /\ IsToggle(ev)
  /\ stackBuf # NoPage
  /\ seqIdx \in SavePoints
  /\ AttackSeq[seqIdx + 1] = ev.page

\* Mutant: the print/save switch appends every fault, the default included.
RecordedAll(ev) ==
  Append(trace, [page |-> ev.page, snap |-> TakesSnapshot(ev), tog |-> vt])

\* attackEvents after the print/save step: every CT/FE fault is appended.
Recorded(ev) ==
  IF IsToggle(ev)
    THEN Append(trace, [page |-> ev.page, snap |-> TakesSnapshot(ev), tog |-> vt])
    ELSE trace

\* accessTrackEvents after the print/save step.
Collected(ev) ==
  IF ~IsToggle(ev) /\ writeTrack THEN Append(burst, ev) ELSE burst

\* case faultSequence[sequenceIDX] of the re-tracking switch.
InSequence(ev) == ev.page = FaultSeq[seqIdx + 1]

StartsWindow == finishedIgnore /\ seqIdx = IdxStartWriteTrack /\ cycle = 0
StopsWindow == finishedIgnore /\ seqIdx = IdxStopWriteTrack /\ cycle = 0

NextIdx == (seqIdx + 1) % Len(FaultSeq)

\* Mutant: the wraparound that ends the ignore sequence is counted as a cycle.
AdvanceCountsIgnoreWrap ==
  /\ seqIdx' = NextIdx
  /\ finishedIgnore' = (finishedIgnore \/ NextIdx = 0)
  /\ cycle' = IF NextIdx = 0 THEN cycle + 1 ELSE cycle

(***************************************************************************)
(* Lines 176-190: advance sequenceIDX, CmdTrackPage the next element of    *)
(* faultSequence (before it is swapped), and on wraparound either leave    *)
(* the ignore phase or count a cycle.                                      *)
(***************************************************************************)
Advance ==
  /\ seqIdx' = NextIdx
  /\ finishedIgnore' = (finishedIgnore \/ NextIdx = 0)
  /\ cycle' = IF NextIdx = 0 /\ finishedIgnore THEN cycle + 1 ELSE cycle

\* Mutant: CmdTrackPage before sequenceIDX is advanced re-arms the same page.
ArmCurrent == execArmed \cup {FaultSeq[seqIdx + 1]}

ArmNext == execArmed \cup {FaultSeq[NextIdx + 1]}

\* CmdAckEvent: the vCPU resumes.
Ack == pending' = NoEvent

\* A fault that is not the expected element: recorded, collected, acked.
HandleSpurious ==
  /\ Polled
  /\ ~InSequence(pending)
  /\ trace' = Recorded(pending)
  /\ burst' = Collected(pending)
  /\ Ack
  /\ UNCHANGED <<status, seqIdx, cycle, finishedIgnore, writeTrack, stackBuf,
                 execArmed, accessArmed, vt, vretry, trig>>

\* The expected fault outside the stop of the window (lines 129-140, 176-199).
HandleInSequence ==
  /\ Polled
  /\ InSequence(pending)
  /\ ~StopsWindow
  /\ trace' = Recorded(pending)
  /\ burst' = Collected(pending)
  /\ writeTrack' = (writeTrack \/ StartsWindow)
  /\ accessArmed' = IF StartsWindow THEN Pages ELSE accessArmed
  /\ Advance
  /\ execArmed' = ArmNext
  /\ Ack
  /\ UNCHANGED <<status, stackBuf, vt, vretry, trig>>

(***************************************************************************)
(* The expected fault that stops the window (lines 142-174): untrack all   *)
(* pages in access mode, then run extractStackPage on accessTrackEvents.   *)
(* The expected fault is CT, so it is not collected: the burst is final.   *)
(***************************************************************************)
StopGuard == Polled /\ InSequence(pending) /\ StopsWindow

\* extractStackPage indexes events[offset] with offset < 0: runtime panic.
StopPanics ==
  /\ StopGuard
  /\ LocatorPanics(burst)
  /\ status' = "panicked"
  /\ writeTrack' = FALSE
  /\ accessArmed' = {}
  /\ UNCHANGED <<seqIdx, cycle, finishedIgnore, burst, stackBuf, trace,
                 execArmed, pending, vt, vretry, trig>>

\* extractStackPage returns (nil, false): recordAttackTrace returns an error.
StopNotFound ==
  /\ StopGuard
  /\ ~LocatorPanics(burst)
  /\ ExtractStackPage(burst) = 0
  /\ status' = "failed"
  /\ writeTrack' = FALSE
  /\ accessArmed' = {}
  /\ UNCHANGED <<seqIdx, cycle, finishedIgnore, burst, stackBuf, trace,
                 execArmed, pending, vt, vretry, trig>>

(***************************************************************************)
(* The stack buffer is located at position k of the burst (k # 0: the      *)
(* event returned is an element of it); stackBufferGPA is its page and the *)
(* event just recorded gets the first snapshot.                            *)
(***************************************************************************)
StopLocates ==
  /\ StopGuard
  /\ ~LocatorPanics(burst)
  /\ \E k \in 1 .. Len(burst) :
       /\ k = ExtractStackPage(burst)
       /\ stackBuf' = burst[k].page
  /\ trace' = LET t == Recorded(pending) IN [t EXCEPT ![Len(t)].snap = TRUE]
  /\ writeTrack' = FALSE
  /\ accessArmed' = {}
  /\ Advance
  /\ execArmed' = ArmNext
  /\ Ack
  /\ UNCHANGED <<status, burst, vt, vretry, trig>>

(***************************************************************************)
(* Any ioctl of the iteration (CmdTrackAllPages, CmdUnTrackAllPages,       *)
(* CmdReadGuestMemory, CmdTrackPage, CmdAckEvent) fails: return an error.  *)
(***************************************************************************)
IoctlFails ==
  /\ Polled
  /\ status' = "failed"
  /\ UNCHANGED <<seqIdx, cycle, finishedIgnore, writeTrack, burst, stackBuf,
                 trace, envVars>>

(***************************************************************************)
(* CmdPollEvent fails: WaitForEventBlocking returns an error, the loop     *)
(* breaks (line 99) and line 202 returns the events with a nil error.      *)
(***************************************************************************)
PollFails ==
  /\ status = "running"
  /\ ~Cancelled
  /\ status' = "returned"
  /\ UNCHANGED <<seqIdx, cycle, finishedIgnore, writeTrack, burst, stackBuf,
                 trace, envVars>>

\* Mutant: ctx is only looked at after CmdPollEvent delivered an event.
ReturnOnCancelAfterEvent ==
  /\ status = "running"
  /\ Cancelled
  /\ pending # NoEvent
  /\ status' = "returned"
  /\ UNCHANGED <<seqIdx, cycle, finishedIgnore, writeTrack, burst, stackBuf,
                 trace, envVars>>

\* ctx is done: ErrCtxCancelled breaks the loop, the events are returned.
ReturnOnCancel ==
  /\ status = "running"
  /\ Cancelled
  /\ status' = "returned"
  /\ UNCHANGED <<seqIdx, cycle, finishedIgnore, writeTrack, burst, stackBuf,
                 trace, envVars>>

\* CmdPollEvent returns no event (ok == false): WaitForEventBlocking spins.
\* A stuttering step; it keeps a capture that never returns from deadlocking.
PollsEmpty ==
  /\ status = "running"
  /\ pending = NoEvent
  /\ UNCHANGED vars

(***************************************************************************)
(* Environment. The victim runs while the capture runs and its vCPU is not *)
(* blocked on an unacked fault.                                            *)
(***************************************************************************)
VictimRuns ==
  /\ status = "running"
  /\ trig = "running"
  /\ pending = NoEvent
  /\ vt < TotalToggles

\* The next toggle hits a tracked page: one fault, tracking of it cleared.
ToggleFaults ==
  /\ VictimRuns
  /\ LET p == Toggle(vt + 1) IN
       /\ p \in execArmed \cup accessArmed
       /\ pending' = [page |-> p, write |-> FALSE, rz |-> FALSE]
       /\ execArmed' = execArmed \ {p}
       /\ accessArmed' = accessArmed \ {p}
  /\ vretry' = TRUE
  /\ UNCHANGED <<autVars, vt, trig>>

ToggleCompletes ==
  /\ VictimRuns
  /\ Toggle(vt + 1) \notin execArmed \cup accessArmed
  /\ vt' = vt + 1
  /\ vretry' = FALSE
  /\ UNCHANGED <<autVars, execArmed, accessArmed, pending, trig>>

\* Between two toggles the victim touches an access-tracked data page.
DataAccess ==
  /\ VictimRuns
  /\ ~vretry
  /\ \E d \in DataPages \cap accessArmed, w, z \in BOOLEAN :
       /\ pending' = [page |-> d, write |-> w, rz |-> z]
       /\ accessArmed' = accessArmed \ {d}
  /\ UNCHANGED <<autVars, execArmed, vt, vretry, trig>>

\* Execute returns after the victim finished; the deferred cancel runs.
TriggerDone ==
  /\ trig = "running"
  /\ vt = TotalToggles
  /\ pending = NoEvent
  /\ trig' = "done"
  /\ UNCHANGED <<autVars, execArmed, accessArmed, pending, vt, vretry>>

\* Execute returns an error early (transport failure); cancel runs as well.
TriggerFails ==
  /\ trig = "running"
  /\ trig' = "failed"
  /\ UNCHANGED <<autVars, execArmed, accessArmed, pending, vt, vretry>>

Terminated ==
  /\ status \in {"returned", "failed", "panicked"}
  /\ UNCHANGED vars

Automaton ==
  \/ Start \/ HandleSpurious \/ HandleInSequence
  \/ StopPanics \/ StopNotFound \/ StopLocates \/ ReturnOnCancel

Failures == StartFails \/ IoctlFails \/ PollFails

Victim == ToggleFaults \/ ToggleCompletes \/ DataAccess

Next ==
  Automaton \/ PollsEmpty \/ Failures \/ Victim \/ TriggerDone \/ TriggerFails \/ Terminated

(***************************************************************************)
(* The capture loop busy-polls, so it handles every delivered event and    *)
(* sees a cancelled ctx; the victim keeps executing while not blocked; the *)
(* trigger returns once the victim is done. Failures, data accesses and an *)
(* early trigger error are possible but never forced.                      *)
(***************************************************************************)
Fairness ==
  /\ WF_vars(Automaton)
  /\ WF_vars(ToggleFaults \/ ToggleCompletes)
  /\ WF_vars(TriggerDone)

Spec == Init /\ [][Next]_vars /\ Fairness

-----------------------------------------------------------------------------
(***************************************************************************)
(* Type invariant. (sequenceCycleCount stays below Cycles + 1 only because *)
(* the automaton stays in step with the victim: see InStep.)               *)
(***************************************************************************)
TypeOK ==
  /\ status \in {"init", "running", "returned", "failed", "panicked"}
  /\ seqIdx \in 0 .. Len(AttackSeq) - 1
  /\ cycle \in Nat
  /\ finishedIgnore \in BOOLEAN
  /\ writeTrack \in BOOLEAN
  /\ burst \in Seq(Fault)
  /\ stackBuf \in Pages \cup {NoPage}
  /\ trace \in Seq(TraceEntry)
  /\ execArmed \subseteq Pages
  /\ accessArmed \subseteq Pages
  /\ pending \in Fault \cup {NoEvent}
  /\ vt \in 0 .. TotalToggles
  /\ vretry \in BOOLEAN
  /\ trig \in {"idle", "running", "done", "failed"}

\* The toggle the automaton expects next, counted from the victim's start.
AutPos ==
  IF finishedIgnore THEN Len(IgnoreSeq) + cycle * Len(AttackSeq) + seqIdx
                    ELSE seqIdx

(***************************************************************************)
(* The automaton stays in step with the victim: while recordAttackTrace    *)
(* runs, the element sequenceIDX points at is the victim's next toggle, or *)
(* the one after it while the victim still has to re-execute a toggle the *)
(* automaton already handled. A missed fault (the next page not armed), a  *)
(* double advance on a refault, or a wrong page re-armed on wraparound     *)
(* breaks it, and every later snapshot is then taken at the wrong place.   *)
(***************************************************************************)
InStep ==
  status = "running" => \/ AutPos = vt
                        \/ AutPos = vt + 1 /\ vretry

(***************************************************************************)
(* The automaton moves along faultSequence only on the fault of the toggle *)
(* the victim is blocked on, and by exactly one of the victim's toggles:   *)
(* the refault of a re-executed toggle (line 129) never advances it, and   *)
(* the wraparound of sequenceIDX with the swap to the attack sequence or   *)
(* the cycle count (lines 176-190) neither skips nor repeats a position.   *)
(***************************************************************************)
AdvancesWithVictim ==
  [][AutPos' # AutPos => AutPos = vt /\ AutPos' = vt + 1]_vars

(***************************************************************************)
(* Why the automaton stays in step (the inductive form of InStep). The     *)
(* element sequenceIDX points at is Expected; the other toggle page is     *)
(* Other. While running, the capture is in one of three situations:        *)
(*  - the victim is about to run toggle AutPos + 1 (or is blocked on a     *)
(*    data fault): Expected is tracked, Other is not, so the toggle        *)
(*    faults and cannot slip through unobserved;                           *)
(*  - the victim is blocked on the fault of that toggle, on Expected;      *)
(*  - the automaton has handled it and re-armed the next element, and the  *)
(*    victim re-executes the faulted toggle (Other); Other can still be    *)
(*    tracked (the access window tracks every page) and then refaults,     *)
(*    which the automaton treats as out of sequence.                       *)
(* Besides: the ignore sequence is indexed within its 4 elements, no cycle *)
(* is counted before the attack phase, and the automaton never expects a   *)
(* toggle beyond the victim's last.                                        *)
(***************************************************************************)
Expected == FaultSeq[seqIdx + 1]
Other == IF Expected = CT THEN FE ELSE CT
Armed == execArmed \cup accessArmed

\* The ignore sequence is indexed within its elements; no cycle counted yet.
IgnoreBounds == ~finishedIgnore => seqIdx < Len(IgnoreSeq) /\ cycle = 0

NotStarted ==
  status = "init" =>
    /\ execArmed = {} /\ accessArmed = {} /\ pending = NoEvent
    /\ vt = 0 /\ ~vretry /\ seqIdx = 0 /\ ~finishedIgnore

AboutToToggle ==
  /\ AutPos = vt /\ ~vretry
  /\ Expected \in Armed /\ Other \notin Armed
  /\ pending = NoEvent \/ pending.page \in DataPages

BlockedOnToggle ==
  /\ AutPos = vt /\ vretry /\ vt < TotalToggles
  /\ pending # NoEvent /\ pending.page = Expected

Retrying ==
  /\ AutPos = vt + 1 /\ vretry
  /\ Expected \in Armed
  /\ pending = NoEvent \/ pending.page = Other

Situations ==
  status = "running" =>
    /\ AutPos <= TotalToggles
    /\ AboutToToggle \/ BlockedOnToggle \/ Retrying

StepInv == TypeOK /\ IgnoreBounds /\ NotStarted /\ Situations

\* The recorded events that carry a memory snapshot (MonitorGPA != 0).
Snaps == SelectSeq(trace, LAMBDA e : e.snap)

SavePointRank(k) == Cardinality({q \in SavePoints : q < k})
SavePointOfRank(r) == CHOOSE k \in SavePoints : SavePointRank(k) = r

(***************************************************************************)
(* The layout the offline recovery relies on (pfOSSHRecoverEdDSAKey reads  *)
(* the snapshots of cycle c at c * MemAccessesPerCycle + k): the i-th      *)
(* snapshot is taken in victim iteration (i-1) div |SavePoints|, and from  *)
(* iteration 1 on at the save point of rank (i-1) mod |SavePoints|.        *)
(* Iteration 0 has as many snapshots as the others only because the       *)
(* window stop at index 2 adds one while index 1, before the buffer is     *)
(* known, has none.                                                        *)
(***************************************************************************)
SnapshotLayout ==
  \A i \in 1 .. Len(Snaps) :
    LET pos == Snaps[i].tog - Len(IgnoreSeq)
        n == Cardinality(SavePoints)
    IN  /\ pos >= 0
        /\ pos \div Len(AttackSeq) = (i - 1) \div n
        /\ i > n => pos % Len(AttackSeq) = SavePointOfRank((i - 1) % n)

(***************************************************************************)
(* recordAttackTrace always returns: the victim is never left blocked on   *)
(* a fault nobody acks while the loop waits for a cancel that never comes. *)
(***************************************************************************)
CaptureTerminates == <>(status \in {"returned", "failed", "panicked"})

(***************************************************************************)
(* Spec 4.2: recordAttackTrace reports success only on cancellation; any   *)
(* other poll failure is a fatal error.                                    *)
(***************************************************************************)
ReturnOnlyOnCancel == status = "returned" => Cancelled

(***************************************************************************)
(* Spec 4.3: the locator returns failure when no pattern exists; the       *)
(* capture never dies on a runtime panic inside extractStackPage.          *)
(***************************************************************************)
LocatorNeverPanics == status # "panicked"

=============================================================================
