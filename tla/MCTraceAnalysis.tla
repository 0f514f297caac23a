--------------------------- MODULE MCTraceAnalysis ---------------------------
(***************************************************************************)
(* The offline trace-analysis operators for TLC:                           *)
(*  - AllowList (cmd/buildAllowList) on every log of up to MaxLines lines  *)
(*    over the GPAs, with both settings of -excludeKernel;                 *)
(*  - ToggleSequences (printToggleSequences of cmd/pfOSSHAttackEdDSA) on   *)
(*    every trace of MinLen .. MaxLen faults over three GPAs. Shorter      *)
(*    traces are left out: with fewer than three events events[1:3]       *)
(*    slices past len(events), which panics or reads nil entries depending *)
(*    on the slice's capacity.                                             *)
(* The input is chosen once in Init and kept; a behaviour checks one of    *)
(* the two tools (input), the other's input is empty.                      *)
(***************************************************************************)
EXTENDS AllowList, ToggleSequences

CONSTANTS g1, g2, g3, MaxLines, MinLen, MaxLen

VARIABLES
  input,          \* "buildAllowList" or "printToggleSequences"
  lines,          \* the log buildAllowList reads
  excludeKernel,  \* its -excludeKernel flag
  events          \* the FaultedGPAs printToggleSequences reads

vars == <<input, lines, excludeKernel, events>>

\* The pages of the toggle traces.
TracePages == {g1, g2, g3}

Marker(k) == [kind |-> k, gpa |-> g1, kernel |-> FALSE]

\* A marker or a bad/other line has one canonical form.
MCLines ==
  {Marker(k) : k \in {"start", "stop", "bad", "other"}}
    \cup {l \in Line : l.kind = "event"}

Init ==
  \/ /\ input = "buildAllowList"
     /\ lines \in UNION {[1 .. n -> MCLines] : n \in 0 .. MaxLines}
     /\ excludeKernel \in BOOLEAN
     /\ events = <<>>
  \/ /\ input = "printToggleSequences"
     /\ lines = <<>>
     /\ excludeKernel = FALSE
     /\ events \in UNION {[1 .. n -> TracePages] : n \in MinLen .. MaxLen}

Next == UNCHANGED vars

Spec == Init /\ [][Next]_vars

-----------------------------------------------------------------------------
\* Reference segmentation: a Start at i whose next marker is a Stop at j.
IsMarker(i) == lines[i].kind \in {"start", "stop"}

RunPairs ==
  {<<i, j>> \in (DOMAIN lines) \X (DOMAIN lines) :
     /\ i < j
     /\ lines[i].kind = "start" /\ lines[j].kind = "stop"
     /\ \A k \in i + 1 .. j - 1 : ~IsMarker(k)}

\* Well formed: no Start while a run is open (markers alternate from Start).
WellFormed ==
  \A i, j \in DOMAIN lines :
    i < j /\ lines[i].kind = "start" /\ lines[j].kind = "start"
      => \E k \in i + 1 .. j - 1 : lines[k].kind = "stop"

\* Inside a trace: after a Start with no Stop since.
Inside(k) ==
  \E i \in 1 .. k - 1 : lines[i].kind = "start"
                        /\ \A m \in i + 1 .. k - 1 : lines[m].kind # "stop"

PairSeq == SetToSortSeq(RunPairs, LAMBDA a, b : a[1] < b[1])

Segment(p) == SelectSeq(SubSeq(lines, p[1] + 1, p[2] - 1), IsEvent)

(***************************************************************************)
(* Spec 2 and 4.1 (a log with N well-formed Start/Stop pairs yields        *)
(* exactly N runs, each holding only the records strictly between its      *)
(* markers; a record that cannot be decoded inside a run is an error): the *)
(* scanner loop of ParseInputFileWithRuns, with its insideTrace flag and   *)
(* the early return, produces exactly that segmentation.                   *)
(***************************************************************************)
RunsAreDelimited ==
  input = "buildAllowList" /\ WellFormed =>
    LET st == Parse(lines)
    IN  /\ st.err <=> \E k \in DOMAIN lines : lines[k].kind = "bad" /\ Inside(k)
        /\ ~st.err => st.runs = [r \in 1 .. Len(PairSeq) |-> Segment(PairSeq[r])]

(***************************************************************************)
(* The allow list written by main is the set of GPAs that every delimited  *)
(* run of a well-formed log touches (outside kernel RIPs under             *)
(* -excludeKernel), and empty for a log without runs.                      *)
(***************************************************************************)
AllowListIsCommonPages ==
  input = "buildAllowList" /\ WellFormed /\ Parse(lines).err = FALSE =>
    AllowListOf(lines, excludeKernel) =
      IF RunPairs = {} THEN {}
      ELSE {g \in GPAs :
              \A p \in RunPairs : \E k \in p[1] + 1 .. p[2] - 1 :
                 /\ IsEvent(lines[k]) /\ lines[k].gpa = g
                 /\ ~(excludeKernel /\ lines[k].kernel)}

-----------------------------------------------------------------------------
\* The pair w occurs k + 1 times back to back from position s.
Repeats(w, s, k) ==
  /\ s + 2 * k + 2 <= Len(events)
  /\ \A m \in 0 .. k : WindowAt(events, s + 2 * m) = w

\* A pair of two different pages, the kind of pair the histogram looks for.
Toggle(w) == w[1] # w[2]

(***************************************************************************)
(* The histogram never overstates a toggle: every pair of two pages that   *)
(* printToggleSequences records really occurs in the trace with as many    *)
(* back-to-back repetitions as it counts, across the window sliding and    *)
(* realigning of both passes.                                              *)
(***************************************************************************)
ToggleCountsAreRealRuns ==
  input = "printToggleSequences" =>
    LET counter == ToggleCounter(events)
    IN  \A w \in DOMAIN counter :
          Toggle(w) => \E s \in 0 .. Len(events) : Repeats(w, s, counter[w])

=============================================================================
