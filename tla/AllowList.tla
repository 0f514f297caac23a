------------------------------ MODULE AllowList ------------------------------
(***************************************************************************)
(* cmd/buildAllowList: ParseInputFileWithRuns splits a line-oriented log   *)
(* into runs at "Start"/"Stop" lines, main builds one GPA set per run      *)
(* (optionally without kernel-space RIPs) and intersectRunSets keeps the   *)
(* GPAs present in every run.                                              *)
(*                                                                         *)
(* A line is abstracted to what the parser tells apart: a "start" or       *)
(* "stop" marker (HasPrefix after TrimLeft), an "event" (a line starting   *)
(* with "{" that decodes, with its FaultedGPA and whether its RIP lies in  *)
(* kernel space), a "bad" line (starts with "{" but does not decode) and   *)
(* any "other" line. Markers carry no event fields of their own.           *)
(***************************************************************************)
EXTENDS Integers, SequencesExt

CONSTANT GPAs   \* the FaultedGPA values of the log

Line == [kind : {"start", "stop", "event", "bad", "other"},
         gpa : GPAs, kernel : BOOLEAN]

IsEvent(l) == l.kind = "event"

\* The parser's state: insideTrace, eventsByRuns, eventsSingleRun, failed.
ParserInit == [inside |-> FALSE, runs |-> <<>>, cur |-> <<>>, err |-> FALSE]

\* Mutant: "Stop" appends the run but does not start a fresh one.
ParseStepKeepRun(st, l) ==
  LET inside == st.inside \/ l.kind = "start"
  IN  CASE st.err -> st
        [] ~inside -> st
        [] l.kind = "stop" -> [st EXCEPT !.inside = FALSE, !.runs = Append(@, st.cur)]
        [] l.kind = "event" -> [st EXCEPT !.inside = TRUE, !.cur = Append(@, l)]
        [] l.kind = "bad" -> [st EXCEPT !.err = TRUE]
        [] OTHER -> [st EXCEPT !.inside = TRUE]

(***************************************************************************)
(* One pass of the scanner loop (lines 28-66). After an error the function *)
(* has returned: later lines change nothing. A "Start" line sets           *)
(* insideTrace and, not starting with "{", is then skipped as non-JSON;    *)
(* outside a trace every line is skipped; "Stop" closes the current run.   *)
(***************************************************************************)
ParseStep(st, l) ==
  LET inside == st.inside \/ l.kind = "start"
  IN  CASE st.err -> st
        [] ~inside -> st
        [] l.kind = "stop" ->
             [inside |-> FALSE, runs |-> Append(st.runs, st.cur), cur |-> <<>>,
              err |-> FALSE]
        [] l.kind = "event" -> [st EXCEPT !.inside = TRUE, !.cur = Append(@, l)]
        [] l.kind = "bad" -> [st EXCEPT !.err = TRUE]
        [] OTHER -> [st EXCEPT !.inside = TRUE]

\* ParseInputFileWithRuns: the runs, or an error (err).
Parse(lines) == FoldLeft(ParseStep, ParserInit, lines)

\* runSets (lines 124-134): the GPAs of a run's events, kernel RIPs skipped.
RunSets(runs, excludeKernel) ==
  [r \in DOMAIN runs |->
     {runs[r][k].gpa : k \in {k \in DOMAIN runs[r] :
                                ~(excludeKernel /\ runs[r][k].kernel)}}]

(***************************************************************************)
(* intersectRunSets (lines 75-99): empty for no runs; else the keys of the *)
(* first run, each set false once a later run lacks it. Here the set of    *)
(* keys still true after merging runs 2 .. i.                              *)
(***************************************************************************)
\* Mutant: the merge loop starts at i := 2 and never looks at the second run.
IntersectSkipSecond(sets) ==
  LET n == Len(sets)
      acc[i \in 1 .. n] ==
        IF i = 1 THEN sets[1]
        ELSE IF i = 2 THEN acc[1] ELSE {k \in acc[i - 1] : k \in sets[i]}
  IN  IF n = 0 THEN {} ELSE acc[n]

IntersectRunSets(sets) ==
  LET n == Len(sets)
      acc[i \in 1 .. n] ==
        IF i = 1 THEN sets[1] ELSE {k \in acc[i - 1] : k \in sets[i]}
  IN  IF n = 0 THEN {} ELSE acc[n]

\* The GPAs main writes to the out file (lines 118-152), or "fatal" when
\* ParseInputFileWithRuns failed (log.Fatalf at line 120).
AllowListOf(lines, excludeKernel) ==
  LET st == Parse(lines)
  IN  IF st.err THEN "fatal"
                ELSE IntersectRunSets(RunSets(st.runs, excludeKernel))

=============================================================================
