----------------------------- MODULE CaptureECDH -----------------------------
(***************************************************************************)
(* The live capture of pfOSSLAttackECDH: enterFaultHandlingLoop and        *)
(* processEvent (cmd/pfOSSLAttackECDH/main.go) with the start-up of main   *)
(* (initial CmdTrackPage, trigger goroutine), the hypervisor tracking it   *)
(* drives and the victim whose faults it observes.                         *)
(*                                                                         *)
(* One loop iteration (poll, print step, re-track step, ack) is one atomic *)
(* action: only the main goroutine touches the loop's state and the       *)
(* faulting vCPU is blocked until the ack. Every ioctl or write that can   *)
(* fail is a disjunct that returns an error. A page is a model value; a    *)
(* recorded event is its page and the page its snapshot was read from.     *)
(*                                                                         *)
(* Environment (spec 4.2, 6, 4.7): the victim executes the base page Gpa1  *)
(* and the fe64 page Gpa2 alternately, Iterations times each, and between  *)
(* two toggles may touch data pages. A tracked page faults once, which     *)
(* clears its tracking; after the ack the vCPU retries the instruction.    *)
(* Whether tracking that the handler sets on the very page whose event is  *)
(* pending survives the resume depends on the hypervisor, which is not in  *)
(* this repository: RetrackedPageRefaults chooses.                         *)
(***************************************************************************)
EXTENDS Naturals, Sequences

CONSTANTS
  Gpa1,                   \* config.gpa1, the x25519 base page
  Gpa2,                   \* config.gpa2, the fe64 page
  DataPages,              \* the other guest pages; x2's page is one of them
  NoPage,                 \* writeGPA = 0 / no snapshot
  NoEvent,                \* no fault delivered and waiting for its ack
  IgnoreCycles,           \* config.ignoreCycles
  Iterations,             \* base-page executions of the victim
  RetrackedPageRefaults   \* tracking of the pending page survives the resume

ASSUME ECDHCaptureAssumption ==
  /\ Gpa1 # Gpa2
  /\ {Gpa1, Gpa2} \cap DataPages = {}
  /\ NoPage \notin DataPages \cup {Gpa1, Gpa2}
  /\ NoEvent \notin DataPages \cup {Gpa1, Gpa2}
  /\ IgnoreCycles \in Nat /\ Iterations \in Nat
  /\ RetrackedPageRefaults \in BOOLEAN

Pages == {Gpa1, Gpa2} \cup DataPages

\* The victim's n-th toggle (1-based): base page first.
TotalToggles == 2 * Iterations
Toggle(n) == IF n % 2 = 1 THEN Gpa1 ELSE Gpa2

VARIABLES
  status,        \* "init", "running", then "ok", "failed" or "panicked"
  gpa1Count,     \* gpa1CycleCount
  inCycle,       \* inCycle
  cycleLog,      \* cycleLog
  haveWriteGPA,  \* haveWriteGPA
  writeGPA,      \* writeGPA
  trace,         \* the events written to outWriter
  execArmed,     \* pages tracked in config.trackingType mode
  accessArmed,   \* pages tracked in PageTrackAccess mode
  pending,       \* the delivered, not yet acked fault (its page)
  vt,            \* toggles the victim has completed
  vretry,        \* the victim must re-execute a toggle that faulted
  trig,          \* trigger goroutine: "idle", "running", "done", "failed"
  winLast        \* ghost: the last data fault of the victim's window cycle

capVars == <<status, gpa1Count, inCycle, cycleLog, haveWriteGPA, writeGPA, trace>>
envVars == <<execArmed, accessArmed, pending, vt, vretry, trig, winLast>>
vars == <<capVars, envVars>>

Init ==
  /\ status = "init"
  /\ gpa1Count = 0
  /\ inCycle = FALSE
  /\ cycleLog = <<>>
  /\ haveWriteGPA = FALSE
  /\ writeGPA = NoPage
  /\ trace = <<>>
  /\ execArmed = {}
  /\ accessArmed = {}
  /\ pending = NoEvent
  /\ vt = 0
  /\ vretry = FALSE
  /\ trig = "idle"
  /\ winLast = NoPage

\* main, lines 238-261: CmdTrackPage(gpa1), then the trigger goroutine.
Start ==
  /\ status = "init"
  /\ status' = "running"
  /\ execArmed' = {Gpa1}
  /\ trig' = "running"
  /\ UNCHANGED <<gpa1Count, inCycle, cycleLog, haveWriteGPA, writeGPA, trace,
                 accessArmed, pending, vt, vretry, winLast>>

\* Lines 238-241: the initial CmdTrackPage fails and main returns.
StartFails ==
  /\ status = "init"
  /\ status' = "failed"
  /\ UNCHANGED <<gpa1Count, inCycle, cycleLog, haveWriteGPA, writeGPA, trace,
                 envVars>>

\* The goroutine's deferred cancel() ran (HTTP reply drained, or an error).
Cancelled == trig \in {"done", "failed"}

\* WaitForEventBlocking delivered an event and ctx is not done.
Polled == status = "running" /\ ~Cancelled /\ pending # NoEvent

(***************************************************************************)
(* Tracking set by the handler. Without RetrackedPageRefaults the pending  *)
(* page's tracking is dropped when the vCPU resumes.                       *)
(***************************************************************************)
Arm(S) == IF RetrackedPageRefaults THEN S ELSE S \ {pending}

\* Mutant: the page just handled is tracked again (gpa1 for gpa2).
TrackedAfterGpa1Same == Gpa1

\* Line 104: the page tracked after a gpa1 fault, the victim's next toggle.
TrackedAfterGpa1 == Gpa2

\* Mutant: the window opens one base-page fault early.
OpensWindowEarly == gpa1Count + 1 = IgnoreCycles

\* Line 107: the gpa1 fault that opens the access-tracking window.
OpensWindow == gpa1Count = IgnoreCycles

\* Line 97: the gpa1 fault that closes it and fixes writeGPA.
ClosesWindow == gpa1Count = IgnoreCycles + 1

\* Mutant: the print step runs after the re-track step has set writeGPA.
RecordedAfterRetrack(p) ==
  Append(trace, [page |-> p,
                 snap |-> CASE haveWriteGPA -> writeGPA
                            [] p = Gpa1 /\ ClosesWindow /\ cycleLog # <<>>
                                 -> cycleLog[Len(cycleLog)]
                            [] OTHER -> NoPage])

\* Print step for a gpa1/gpa2 fault (lines 80-92, processEvent 40-55).
Recorded(p) ==
  Append(trace, [page |-> p, snap |-> IF haveWriteGPA THEN writeGPA ELSE NoPage])

\* CmdAckEvent.
Ack == pending' = NoEvent

\* Lines 97-102 read cycleLog[len(cycleLog)-1]: a Go index out of range.
WindowEndPanics ==
  /\ Polled
  /\ pending = Gpa1
  /\ ClosesWindow
  /\ cycleLog = <<>>
  /\ status' = "panicked"
  /\ trace' = Recorded(Gpa1)
  /\ UNCHANGED <<gpa1Count, inCycle, cycleLog, haveWriteGPA, writeGPA, envVars>>

(***************************************************************************)
(* A gpa1 fault (lines 84-92, 96-114): printed; on the cycle after the     *)
(* window the last logged page becomes writeGPA; gpa2 is tracked; on cycle *)
(* IgnoreCycles every page is access tracked and the window opens.         *)
(***************************************************************************)
HandleGpa1 ==
  /\ Polled
  /\ pending = Gpa1
  /\ ClosesWindow => cycleLog # <<>>
  /\ trace' = Recorded(Gpa1)
  /\ IF ClosesWindow
       THEN /\ inCycle' = FALSE
            /\ haveWriteGPA' = TRUE
            /\ writeGPA' = cycleLog[Len(cycleLog)]
       ELSE /\ inCycle' = (inCycle \/ OpensWindow)
            /\ UNCHANGED <<haveWriteGPA, writeGPA>>
  /\ execArmed' = Arm(execArmed \cup {TrackedAfterGpa1})
  /\ accessArmed' = IF OpensWindow THEN Arm(Pages) ELSE accessArmed
  /\ gpa1Count' = gpa1Count + 1
  /\ Ack
  /\ UNCHANGED <<status, cycleLog, vt, vretry, trig, winLast>>

\* A gpa2 fault (lines 84-92, 115-119): printed, gpa1 tracked.
HandleGpa2 ==
  /\ Polled
  /\ pending = Gpa2
  /\ trace' = Recorded(Gpa2)
  /\ execArmed' = Arm(execArmed \cup {Gpa1})
  /\ Ack
  /\ UNCHANGED <<status, gpa1Count, inCycle, cycleLog, haveWriteGPA, writeGPA,
                 accessArmed, vt, vretry, trig, winLast>>

\* Any other fault (lines 120-124): logged while the window is open.
HandleData ==
  /\ Polled
  /\ pending \in DataPages
  /\ cycleLog' = IF inCycle THEN Append(cycleLog, pending) ELSE cycleLog
  /\ Ack
  /\ UNCHANGED <<status, gpa1Count, inCycle, haveWriteGPA, writeGPA, trace,
                 execArmed, accessArmed, vt, vretry, trig, winLast>>

(***************************************************************************)
(* CmdReadGuestMemory, the json encoding, outWriter.Write, CmdTrackPage,   *)
(* CmdTrackAllPages or CmdAckEvent fails: the loop returns an error.       *)
(***************************************************************************)
IoctlFails ==
  /\ Polled
  /\ status' = "failed"
  /\ UNCHANGED <<gpa1Count, inCycle, cycleLog, haveWriteGPA, writeGPA, trace,
                 envVars>>

\* CmdPollEvent fails: the loop breaks and line 133 returns the error.
PollFails ==
  /\ status = "running"
  /\ ~Cancelled
  /\ status' = "failed"
  /\ UNCHANGED <<gpa1Count, inCycle, cycleLog, haveWriteGPA, writeGPA, trace,
                 envVars>>

\* ctx done: ErrCtxCancelled; lines 136-140 return writeGPA or an error.
ReturnOnCancel ==
  /\ status = "running"
  /\ Cancelled
  /\ status' = IF haveWriteGPA THEN "ok" ELSE "failed"
  /\ UNCHANGED <<gpa1Count, inCycle, cycleLog, haveWriteGPA, writeGPA, trace,
                 envVars>>

\* CmdPollEvent returns no event: WaitForEventBlocking spins.
PollsEmpty ==
  /\ status = "running"
  /\ pending = NoEvent
  /\ UNCHANGED vars

(***************************************************************************)
(* Environment. The victim runs while not blocked on an unacked fault.     *)
(* Its window cycle is the time between its base-page executions number    *)
(* IgnoreCycles and IgnoreCycles + 1 (0-based).                            *)
(***************************************************************************)
VictimRuns ==
  /\ status = "running"
  /\ trig = "running"
  /\ pending = NoEvent
  /\ vt < TotalToggles

InWindowCycle == vt \in {2 * IgnoreCycles + 1, 2 * IgnoreCycles + 2}

ToggleFaults ==
  /\ VictimRuns
  /\ LET p == Toggle(vt + 1) IN
       /\ p \in execArmed \cup accessArmed
       /\ pending' = p
       /\ execArmed' = execArmed \ {p}
       /\ accessArmed' = accessArmed \ {p}
  /\ vretry' = TRUE
  /\ UNCHANGED <<capVars, vt, trig, winLast>>

ToggleCompletes ==
  /\ VictimRuns
  /\ Toggle(vt + 1) \notin execArmed \cup accessArmed
  /\ vt' = vt + 1
  /\ vretry' = FALSE
  /\ UNCHANGED <<capVars, execArmed, accessArmed, pending, trig, winLast>>

DataAccess ==
  /\ VictimRuns
  /\ ~vretry
  /\ \E d \in DataPages \cap accessArmed :
       /\ pending' = d
       /\ accessArmed' = accessArmed \ {d}
       /\ winLast' = IF InWindowCycle THEN d ELSE winLast
  /\ UNCHANGED <<capVars, execArmed, vt, vretry, trig>>

\* The HTTP request returns once the victim is done; cancel() runs.
TriggerDone ==
  /\ trig = "running"
  /\ vt = TotalToggles
  /\ pending = NoEvent
  /\ trig' = "done"
  /\ UNCHANGED <<capVars, execArmed, accessArmed, pending, vt, vretry, winLast>>

\* http.Get fails early; the deferred cancel() runs as well.
TriggerFails ==
  /\ trig = "running"
  /\ trig' = "failed"
  /\ UNCHANGED <<capVars, execArmed, accessArmed, pending, vt, vretry, winLast>>

Terminated ==
  /\ status \in {"ok", "failed", "panicked"}
  /\ UNCHANGED vars

Loop ==
  \/ HandleGpa1 \/ HandleGpa2 \/ HandleData \/ WindowEndPanics
  \/ IoctlFails \/ PollFails \/ ReturnOnCancel \/ PollsEmpty

Victim == ToggleFaults \/ ToggleCompletes \/ DataAccess

Next ==
  Start \/ StartFails \/ Loop \/ Victim \/ TriggerDone \/ TriggerFails \/ Terminated

Spec == Init /\ [][Next]_vars

-----------------------------------------------------------------------------
(***************************************************************************)
(* The output trace is what pfOSSLRecoverECDHKey indexes: its k-th event   *)
(* is the victim's k-th toggle (base and fe64 alternate, none missed or    *)
(* doubled), and exactly the events after the base-page fault that closes *)
(* the window carry a snapshot, of the page found as writeGPA.             *)
(***************************************************************************)
TraceLayout ==
  \A k \in 1 .. Len(trace) :
    /\ trace[k].page = Toggle(k)
    /\ trace[k].snap = IF k > 2 * IgnoreCycles + 3 THEN writeGPA ELSE NoPage

(***************************************************************************)
(* The write GPA found by enterFaultHandlingLoop is the last data page the *)
(* victim faulted on in the cycle between its base-page executions        *)
(* IgnoreCycles and IgnoreCycles + 1: the access-tracking window opened    *)
(* and closed by the gpa1 fault counter covers exactly that cycle.         *)
(***************************************************************************)
WriteGPAIsWindowAccess == haveWriteGPA => writeGPA = winLast

\* The capture seen as a ToggleRecorder: the pages of its trace, the
\* victim's completed toggles, and whether the loop still runs.
Recorder == INSTANCE ToggleRecorder
              WITH log <- [k \in 1 .. Len(trace) |-> trace[k].page],
                   done <- vt,
                   open <- status \in {"init", "running"}

(***************************************************************************)
(* The capture runs in lockstep with the victim (ToggleRecorder): every    *)
(* toggle is printed before the victim executes it, so the trace never     *)
(* lags the victim, even by toggles of the right alternation. This rests   *)
(* on the re-track steps arming the victim's next toggle (lines 104, 116) *)
(* before the ack lets it run.                                             *)
(***************************************************************************)
RecorderRefinement == Recorder!Spec

-----------------------------------------------------------------------------
(***************************************************************************)
(* The strengthening that makes the two properties inductive, for          *)
(* RetrackedPageRefaults = FALSE. Handled is the state between the ack of  *)
(* a toggle fault and the victim's re-execution of that toggle.            *)
(***************************************************************************)
Handled == vretry /\ pending = NoEvent

TypeOK ==
  /\ status \in {"init", "running", "ok", "failed", "panicked"}
  /\ gpa1Count \in Nat
  /\ inCycle \in BOOLEAN
  /\ cycleLog \in Seq(DataPages)
  /\ haveWriteGPA \in BOOLEAN
  /\ writeGPA \in DataPages \cup {NoPage}
  /\ trace \in Seq([page : {Gpa1, Gpa2}, snap : DataPages \cup {NoPage}])
  /\ execArmed \subseteq Pages
  /\ accessArmed \subseteq Pages
  /\ pending \in Pages \cup {NoEvent}
  /\ vt \in Nat
  /\ vretry \in BOOLEAN
  /\ trig \in {"idle", "running", "done", "failed"}
  /\ winLast \in DataPages \cup {NoPage}

\* The victim and the tracking: which fault is pending, which toggle the
\* victim faults on or completes next, and that one trace entry is written
\* per toggle fault.
VictimInv ==
  /\ status = "init" => vt = 0 /\ ~vretry /\ pending = NoEvent /\ trace = <<>>
  /\ status # "panicked" => Len(trace) = IF Handled THEN vt + 1 ELSE vt
  /\ vretry /\ pending # NoEvent =>
       /\ pending = Toggle(vt + 1)
       /\ pending \notin execArmed \cup accessArmed
  /\ ~vretry /\ pending # NoEvent => pending \in DataPages
  /\ status = "running" /\ ~vretry => Toggle(vt + 1) \in execArmed
  /\ Handled =>
       /\ Toggle(vt + 1) \notin execArmed \cup accessArmed
       /\ Toggle(vt + 2) \in execArmed

\* The loop's counters against the trace, and the window's log.
LoopInv ==
  /\ status # "panicked" =>
       /\ gpa1Count = (Len(trace) + 1) \div 2
       /\ haveWriteGPA <=> Len(trace) >= 2 * IgnoreCycles + 3
       /\ inCycle <=> gpa1Count = IgnoreCycles + 1
  /\ gpa1Count <= IgnoreCycles => cycleLog = <<>>
  /\ inCycle /\ pending \in DataPages => winLast = pending
  /\ inCycle /\ cycleLog # <<>> /\ pending \notin DataPages =>
       cycleLog[Len(cycleLog)] = winLast

ECDHInv == TypeOK /\ VictimInv /\ LoopInv /\ TraceLayout /\ WriteGPAIsWindowAccess

=============================================================================
