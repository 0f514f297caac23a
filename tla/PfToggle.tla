------------------------------ MODULE PfToggle ------------------------------
(***************************************************************************)
(* cmd/pfToggle: the page-selection tool that toggle-tracks two guest      *)
(* pages, writes every fault it sees to pf-log.txt and, with               *)
(* -writeTrackInbetween, access-tracks all pages for one cycle and logs    *)
(* the last data page faulted in it as the "Write GPA".                    *)
(*                                                                         *)
(* One loop iteration (wait, write, re-track, ack) is one atomic action:   *)
(* only main touches the loop's state and the faulting vCPU waits for the  *)
(* ack. A failed write is only logged, the loop goes on with a log file   *)
(* that keeps nothing more (bufio's error is sticky). The                  *)
(* victim is modelled as in CaptureECDH (spec 4.2, 6): it executes Gpa1    *)
(* and Gpa2 alternately, Iterations times each, touching data pages in     *)
(* between, from the moment the tool is tracking until the tool exits.     *)
(* ctx is cancelled by SIGINT, at any time; WaitForEventBlocking then     *)
(* returns an error just as for a failed poll.                             *)
(***************************************************************************)
EXTENDS Naturals, Sequences

CONSTANTS
  Gpa1,                   \* -gpa1
  Gpa2,                   \* -gpa2
  DataPages,              \* the other guest pages
  NoEvent,                \* no fault delivered and waiting for its ack
  IgnoreCycles,           \* -ignoreCycles
  Iterations,             \* Gpa1 executions of the victim
  RetrackedPageRefaults   \* tracking of the pending page survives the resume

\* What the proofs assume of the constants (MCCaptureECDH, which instantiates
\* this module, checks it as an ASSUME).
ToggleConstants ==
  /\ Gpa1 # Gpa2
  /\ {Gpa1, Gpa2} \cap DataPages = {}
  /\ NoEvent \notin DataPages \cup {Gpa1, Gpa2}
  /\ IgnoreCycles \in Nat /\ Iterations \in Nat
  /\ RetrackedPageRefaults \in BOOLEAN

Pages == {Gpa1, Gpa2} \cup DataPages
TotalToggles == 2 * Iterations
Toggle(n) == IF n % 2 = 1 THEN Gpa1 ELSE Gpa2

VARIABLES
  status,          \* "init", "running", then "returned", "died" or "panicked"
  wti,             \* -writeTrackInbetween (fixed)
  gpa1CycleCount,  \* gpa1CycleCount
  inCycle,         \* inCycle
  cycleLog,        \* cycleLog
  outLog,          \* the events written to outWriter, as their pages
  writeLog,        \* the pages logged as "Write GPA is %x"
  writeLost,       \* ghost: some outWriter.WriteString failed
  execArmed,       \* pages tracked in trackingType mode
  accessArmed,     \* pages tracked in PageTrackAccess mode
  pending,         \* the delivered, not yet acked fault (its page)
  vt,              \* toggles the victim has completed
  vretry,          \* the victim must re-execute a toggle that faulted
  winLast          \* ghost: the last data fault of the victim's window cycle

loopVars == <<status, wti, gpa1CycleCount, inCycle, cycleLog, outLog, writeLog,
              writeLost>>
envVars == <<execArmed, accessArmed, pending, vt, vretry, winLast>>
vars == <<loopVars, envVars>>

Init ==
  /\ status = "init"
  /\ wti \in BOOLEAN
  /\ gpa1CycleCount = 0
  /\ inCycle = FALSE
  /\ cycleLog = <<>>
  /\ outLog = <<>>
  /\ writeLog = <<>>
  /\ writeLost = FALSE
  /\ execArmed = {}
  /\ accessArmed = {}
  /\ pending = NoEvent
  /\ vt = 0
  /\ vretry = FALSE
  /\ winLast = NoEvent

\* Lines 27-54, 66-69: a flag is unset or invalid, or the first
\* CmdTrackPage fails; main returns before the loop.
StartReturns ==
  /\ status = "init"
  /\ status' = "returned"
  /\ UNCHANGED <<wti, gpa1CycleCount, inCycle, cycleLog, outLog, writeLog,
                 writeLost, envVars>>

\* Lines 37-40, 56-59: os.Create or NewIoctlAPI fails: log.Fatalf.
StartDies ==
  /\ status = "init"
  /\ status' = "died"
  /\ UNCHANGED <<wti, gpa1CycleCount, inCycle, cycleLog, outLog, writeLog,
                 writeLost, envVars>>

\* Lines 62-69: gpa1 is tracked and the loop starts.
Start ==
  /\ status = "init"
  /\ status' = "running"
  /\ execArmed' = {Gpa1}
  /\ UNCHANGED <<wti, gpa1CycleCount, inCycle, cycleLog, outLog, writeLog,
                 writeLost, accessArmed, pending, vt, vretry, winLast>>

\* WaitForEventBlocking delivered an event.
Polled == status = "running" /\ pending # NoEvent

\* The lines that stay in pf-log.txt when outWriter fails: those flushed
\* before, a prefix of the lines written.
Flushed == {SubSeq(outLog, 1, k) : k \in 0 .. Len(outLog)}

\* Mutant: a failed write loses its own line only, later writes go through.
WriteStepNotSticky ==
  \E ok \in BOOLEAN :
    /\ outLog' = IF ok THEN Append(outLog, pending) ELSE outLog
    /\ writeLost' = (writeLost \/ ~ok)

(***************************************************************************)
(* Lines 42, 87-89: the event goes into the bufio.Writer, or the flush to  *)
(* the file fails; the error is only logged. bufio keeps its error: every  *)
(* later WriteString fails too, and the lines still buffered never reach   *)
(* the file. outLog is what the file will hold once the deferred Flush has *)
(* run.                                                                    *)
(***************************************************************************)
WriteStep ==
  \/ /\ ~writeLost
     /\ outLog' = Append(outLog, pending)
     /\ UNCHANGED writeLost
  \/ /\ ~writeLost
     /\ outLog' \in Flushed
     /\ writeLost' = TRUE
  \/ /\ writeLost
     /\ UNCHANGED <<outLog, writeLost>>

\* Tracking set by the handler; without RetrackedPageRefaults the pending
\* page's tracking is dropped when the vCPU resumes.
Arm(S) == IF RetrackedPageRefaults THEN S ELSE S \ {pending}

\* Mutant: a gpa1 fault re-tracks gpa1.
TrackedAfterGpa1Same == Gpa1

\* Line 100: the page a gpa1 fault tracks next.
TrackedAfterGpa1 == Gpa2

\* Mutant: the window opens one gpa1 fault early.
OpensWindowEarly == wti /\ gpa1CycleCount + 1 = IgnoreCycles

\* Line 104: the gpa1 fault that opens the access-tracking window.
OpensWindow == wti /\ gpa1CycleCount = IgnoreCycles

\* Line 93: the gpa1 fault that closes it and logs the write GPA.
ClosesWindow == wti /\ gpa1CycleCount = IgnoreCycles + 1

\* CmdAckEvent.
Ack == pending' = NoEvent

(***************************************************************************)
(* A gpa1 fault (lines 92-111): on the cycle after the window the last     *)
(* logged page is printed and cycleLog emptied; gpa2 is tracked; on cycle  *)
(* IgnoreCycles every page is access tracked and the window opens.         *)
(***************************************************************************)
HandleGpa1 ==
  /\ Polled
  /\ pending = Gpa1
  /\ ClosesWindow => cycleLog # <<>>
  /\ WriteStep
  /\ IF ClosesWindow
       THEN /\ writeLog' = Append(writeLog, cycleLog[Len(cycleLog)])
            /\ cycleLog' = <<>>
            /\ inCycle' = FALSE
       ELSE /\ inCycle' = (inCycle \/ OpensWindow)
            /\ UNCHANGED <<writeLog, cycleLog>>
  /\ execArmed' = Arm(execArmed \cup {TrackedAfterGpa1})
  /\ accessArmed' = IF OpensWindow THEN Arm(Pages) ELSE accessArmed
  /\ gpa1CycleCount' = gpa1CycleCount + 1
  /\ Ack
  /\ UNCHANGED <<status, wti, vt, vretry, winLast>>

\* Line 94 reads cycleLog[len(cycleLog)-1] of an empty window: a panic
\* (the deferred Flush still writes out the log).
WindowEndPanics ==
  /\ Polled
  /\ pending = Gpa1
  /\ ClosesWindow
  /\ cycleLog = <<>>
  /\ WriteStep
  /\ status' = "panicked"
  /\ UNCHANGED <<wti, gpa1CycleCount, inCycle, cycleLog, writeLog, envVars>>

\* A gpa2 fault (lines 112-117): gpa1 is tracked.
HandleGpa2 ==
  /\ Polled
  /\ pending = Gpa2
  /\ WriteStep
  /\ execArmed' = Arm(execArmed \cup {Gpa1})
  /\ Ack
  /\ UNCHANGED <<status, wti, gpa1CycleCount, inCycle, cycleLog, writeLog,
                 accessArmed, vt, vretry, winLast>>

\* Any other fault (lines 118-121): logged while the window is open.
HandleData ==
  /\ Polled
  /\ pending \in DataPages
  /\ WriteStep
  /\ cycleLog' = IF wti /\ inCycle THEN Append(cycleLog, pending) ELSE cycleLog
  /\ Ack
  /\ UNCHANGED <<status, wti, gpa1CycleCount, inCycle, writeLog, execArmed,
                 accessArmed, vt, vretry, winLast>>

\* CmdTrackPage, CmdTrackAllPages or CmdAckEvent fails after the write
\* (lines 100-127): main returns.
IoctlFails ==
  /\ Polled
  /\ WriteStep
  /\ status' = "returned"
  /\ UNCHANGED <<wti, gpa1CycleCount, inCycle, cycleLog, writeLog, envVars>>

\* Lines 75-79: SIGINT cancelled ctx or CmdPollEvent failed: main returns.
WaitFails ==
  /\ status = "running"
  /\ status' = "returned"
  /\ UNCHANGED <<wti, gpa1CycleCount, inCycle, cycleLog, outLog, writeLog,
                 writeLost, envVars>>

(***************************************************************************)
(* Environment: the victim, as in CaptureECDH. Its window cycle is the     *)
(* time between its Gpa1 executions number IgnoreCycles and               *)
(* IgnoreCycles + 1 (0-based).                                             *)
(***************************************************************************)
VictimRuns ==
  /\ status = "running"
  /\ pending = NoEvent
  /\ vt < TotalToggles

InWindowCycle == vt \in {2 * IgnoreCycles + 1, 2 * IgnoreCycles + 2}

ToggleFaults ==
  /\ VictimRuns
  /\ LET p == Toggle(vt + 1) IN
       /\ p \in execArmed \cup accessArmed
       /\ pending' = p
       /\ execArmed' = execArmed \ {p}
       /\ accessArmed' = accessArmed \ {p}
  /\ vretry' = TRUE
  /\ UNCHANGED <<loopVars, vt, winLast>>

ToggleCompletes ==
  /\ VictimRuns
  /\ Toggle(vt + 1) \notin execArmed \cup accessArmed
  /\ vt' = vt + 1
  /\ vretry' = FALSE
  /\ UNCHANGED <<loopVars, execArmed, accessArmed, pending, winLast>>

DataAccess ==
  /\ VictimRuns
  /\ ~vretry
  /\ \E d \in DataPages \cap accessArmed :
       /\ pending' = d
       /\ accessArmed' = accessArmed \ {d}
       /\ winLast' = IF InWindowCycle THEN d ELSE winLast
  /\ UNCHANGED <<loopVars, execArmed, vt, vretry>>

Terminated ==
  /\ status \in {"returned", "died", "panicked"}
  /\ UNCHANGED vars

Loop ==
  \/ HandleGpa1 \/ HandleGpa2 \/ HandleData \/ WindowEndPanics
  \/ IoctlFails \/ WaitFails

Next ==
  \/ StartReturns \/ StartDies \/ Start \/ Loop
  \/ ToggleFaults \/ ToggleCompletes \/ DataAccess \/ Terminated

Spec == Init /\ [][Next]_vars

-----------------------------------------------------------------------------
(***************************************************************************)
(* The "Write GPA" pfToggle logs is the last data page the victim faulted  *)
(* on in the cycle between its gpa1 executions IgnoreCycles and            *)
(* IgnoreCycles + 1.                                                       *)
(***************************************************************************)
ToggleWriteGPAIsWindowAccess ==
  \A k \in 1 .. Len(writeLog) : writeLog[k] = winLast

-----------------------------------------------------------------------------
(***************************************************************************)
(* The strengthening that makes it inductive, for RetrackedPageRefaults =  *)
(* FALSE. Handled is the state between the ack of a toggle fault and the   *)
(* victim's re-execution of that toggle; Faulted counts the toggle faults  *)
(* the loop has handled.                                                   *)
(***************************************************************************)
Handled == vretry /\ pending = NoEvent
Faulted == IF Handled THEN vt + 1 ELSE vt

TypeOK ==
  /\ status \in {"init", "running", "returned", "died", "panicked"}
  /\ wti \in BOOLEAN
  /\ gpa1CycleCount \in Nat
  /\ inCycle \in BOOLEAN
  /\ cycleLog \in Seq(DataPages)
  /\ writeLog \in Seq(DataPages)
  /\ execArmed \subseteq Pages
  /\ accessArmed \subseteq Pages
  /\ pending \in Pages \cup {NoEvent}
  /\ vt \in Nat
  /\ vretry \in BOOLEAN
  /\ winLast \in DataPages \cup {NoEvent}

\* The victim and the tracking, as in CaptureECDH.
VictimInv ==
  /\ status = "init" => vt = 0 /\ ~vretry /\ pending = NoEvent
  /\ vretry /\ pending # NoEvent =>
       /\ pending = Toggle(vt + 1)
       /\ pending \notin execArmed \cup accessArmed
  /\ ~vretry /\ pending # NoEvent => pending \in DataPages
  /\ status = "running" /\ ~vretry => Toggle(vt + 1) \in execArmed
  /\ Handled =>
       /\ Toggle(vt + 1) \notin execArmed \cup accessArmed
       /\ Toggle(vt + 2) \in execArmed

\* The gpa1 counter against the victim, and the window's logs.
LoopInv ==
  /\ gpa1CycleCount = (Faulted + 1) \div 2
  /\ inCycle <=> wti /\ gpa1CycleCount = IgnoreCycles + 1
  /\ gpa1CycleCount <= IgnoreCycles => cycleLog = <<>>
  /\ inCycle /\ pending \in DataPages => winLast = pending
  /\ inCycle /\ cycleLog # <<>> /\ pending \notin DataPages =>
       cycleLog[Len(cycleLog)] = winLast
  /\ writeLog # <<>> => gpa1CycleCount >= IgnoreCycles + 2

ToggleInv == TypeOK /\ VictimInv /\ LoopInv /\ ToggleWriteGPAIsWindowAccess

=============================================================================
