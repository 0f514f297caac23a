--------------------------- MODULE MCCaptureECDH ---------------------------
(***************************************************************************)
(* CaptureECDH for TLC: three data pages, one ignored cycle and four      *)
(* victim iterations, so that the window (cycle 1) is preceded by a cycle *)
(* without access tracking and followed by cycles whose events carry      *)
(* snapshots. The runs take RetrackedPageRefaults = FALSE: with TRUE the   *)
(* refault of gpa1 right after CmdTrackAllPages is counted as the next    *)
(* cycle, closes the window with an empty cycleLog and panics at line 98.  *)
(*                                                                         *)
(* The same run checks pfToggle, the tool whose loop the ECDH capture was *)
(* built from, on the same pages and victim: a behaviour runs one of the   *)
(* two tools (tool is chosen in Init), the other one's variables keep     *)
(* their initial values.                                                   *)
(***************************************************************************)
EXTENDS CaptureECDH, TLC

CONSTANTS d1, d2, d3

VARIABLES
  tool,
  tgStatus, tgWti, tgCount, tgInCycle, tgCycleLog, tgOutLog, tgWriteLog,
  tgWriteLost, tgExecArmed, tgAccessArmed, tgPending, tgVt, tgVretry, tgWinLast

PT == INSTANCE PfToggle
        WITH status <- tgStatus, wti <- tgWti, gpa1CycleCount <- tgCount,
             inCycle <- tgInCycle, cycleLog <- tgCycleLog, outLog <- tgOutLog,
             writeLog <- tgWriteLog, writeLost <- tgWriteLost,
             execArmed <- tgExecArmed, accessArmed <- tgAccessArmed,
             pending <- tgPending, vt <- tgVt, vretry <- tgVretry,
             winLast <- tgWinLast

tgVars == <<tgStatus, tgWti, tgCount, tgInCycle, tgCycleLog, tgOutLog, tgWriteLog,
            tgWriteLost, tgExecArmed, tgAccessArmed, tgPending, tgVt, tgVretry,
            tgWinLast>>

MCInit == tool \in {"ecdh", "pfToggle"} /\ Init /\ PT!Init

MCNext ==
  \/ tool = "ecdh" /\ Next /\ UNCHANGED <<tool, tgVars>>
  \/ tool = "pfToggle" /\ PT!Next /\ UNCHANGED <<tool, vars>>

MCSpec == MCInit /\ [][MCNext]_<<tool, vars, tgVars>>

MCDataPages == {d1, d2, d3}

\* The constants satisfy what the pfToggle proofs assume of them.
ASSUME ToggleConstantsHold == PT!ToggleConstants

\* Data pages are interchangeable: no definition names one of them.
MCSymmetry == Permutations(MCDataPages)

(***************************************************************************)
(* The capture never dies on an index out of range (lines 98 and 101 read *)
(* the last entry of cycleLog whether or not the window logged a fault).   *)
(***************************************************************************)
NoPanicAtWindowEnd == status # "panicked"

(***************************************************************************)
(* pf-log.txt of pfToggle: its gpa1 and gpa2 entries are always the        *)
(* victim's first toggles in order, none missed or doubled, up to the      *)
(* toggle in progress; as long as no write failed, all of them. A failed   *)
(* write (line 87) only truncates the log, because outWriter keeps its     *)
(* error; a writer that dropped one line and went on would leave a gap     *)
(* that the trace analysis (printToggleSequences) reads as a page executed *)
(* twice.                                                                  *)
(***************************************************************************)
ToggleLogIsVictimToggles ==
  LET tl == SelectSeq(tgOutLog, LAMBDA p : p \in {Gpa1, Gpa2})
  IN  /\ \A k \in 1 .. Len(tl) : tl[k] = PT!Toggle(k)
      /\ Len(tl) <= tgVt + 1
      /\ ~tgWriteLost => Len(tl) \in {tgVt, tgVt + 1}

\* The "Write GPA" pfToggle logs is the last data page the victim faulted on
\* in the cycle between its gpa1 executions IgnoreCycles and IgnoreCycles + 1.
ToggleWriteGPAIsWindowAccess == PT!ToggleWriteGPAIsWindowAccess

\* pfToggle's inductive invariant (PfToggleProofs).
ToggleInv == PT!ToggleInv

=============================================================================
