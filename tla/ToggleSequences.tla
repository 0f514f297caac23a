--------------------------- MODULE ToggleSequences ---------------------------
(***************************************************************************)
(* printToggleSequences (cmd/pfOSSHAttackEdDSA/analysis.go, lines          *)
(* 109-163), the histogram the page-selection analysis uses to find two    *)
(* pages the victim toggles between: for every pair of consecutive faulted *)
(* GPAs it records the longest run of back-to-back repetitions of the pair *)
(* ("count longest consecutive sequence").                                 *)
(*                                                                         *)
(* events is the sequence of FaultedGPAs (1-based here: Go's events[k] is  *)
(* events[k + 1]). The key windowToKey builds, "0x..->0x..", is injective  *)
(* in the pair of GPAs, so the pair itself is the key. The while loop is a *)
(* step function iterated Len(events) times: every pass moves i on by at   *)
(* least one, and once i has reached the bound a step changes nothing.     *)
(***************************************************************************)
EXTENDS Integers, Sequences, TLC

WindowSize == 2

\* window := events[from : from+windowSize], as the pair of its GPAs.
WindowAt(events, from) == <<events[from + 1], events[from + 2]>>

\* counter[key] = max(old, lenCurrentRun); a missing key reads as 0.
Flushed(counter, w, run) ==
  LET old == IF w \in DOMAIN counter THEN counter[w] ELSE 0
  IN  (w :> IF old >= run THEN old ELSE run) @@ counter

\* Mutant: lenCurrentRun is not reset when a run ends.
ToggleStepNoReset(events, st) ==
  LET i == st.i
  IN  IF i >= Len(events) - WindowSize THEN st
      ELSE IF WindowAt(events, i) = st.window
        THEN [st EXCEPT !.i = i + WindowSize, !.run = @ + 1]
        ELSE [i |-> i + 1, run |-> st.run, window |-> WindowAt(events, i - 1),
              counter |-> Flushed(st.counter, st.window, st.run)]

(***************************************************************************)
(* One pass of "for i := windowSize; i < len(events)-windowSize;" (lines   *)
(* 129-153): the next windowSize events continue the window, or the run    *)
(* ends, its length is kept if it is the longest for that window, and the *)
(* window slides by one to events[i-windowSize+1 : i+1].                   *)
(***************************************************************************)
ToggleStep(events, st) ==
  LET i == st.i
  IN  IF i >= Len(events) - WindowSize THEN st
      ELSE IF WindowAt(events, i) = st.window
        THEN [st EXCEPT !.i = i + WindowSize, !.run = @ + 1]
        ELSE [i |-> i + 1, run |-> 0, window |-> WindowAt(events, i - 1),
              counter |-> Flushed(st.counter, st.window, st.run)]

\* The scan started with the window at startIDX (lines 127-153).
ScanFrom(events, startIDX, counter) ==
  LET n == Len(events)
      st[k \in 0 .. n] ==
        IF k = 0 THEN [i |-> WindowSize, run |-> 0,
                       window |-> WindowAt(events, startIDX), counter |-> counter]
                 ELSE ToggleStep(events, st[k - 1])
  IN  st[n].counter

\* counter after both passes, startIDX = 0 and 1 (lines 110, 126).
ToggleCounter(events) == ScanFrom(events, 1, ScanFrom(events, 0, <<>>))

=============================================================================
