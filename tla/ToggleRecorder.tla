---------------------------- MODULE ToggleRecorder ----------------------------
(***************************************************************************)
(* What a page-fault capture of the victim's toggles promises (spec 4.2,   *)
(* 4.7): it runs in lockstep with the victim. The victim's next toggle is  *)
(* appended to the log before the victim executes it, every toggle is      *)
(* logged once and in order, and the victim never gets more than the one   *)
(* logged toggle ahead of the log. The capture may stop at any point, with *)
(* or without logging the toggle it was handling; from then on nothing     *)
(* moves. log holds toggle pages, done counts the toggles the victim has   *)
(* executed, open is FALSE once the capture has stopped.                   *)
(***************************************************************************)
EXTENDS Naturals, Sequences

CONSTANTS Gpa1, Gpa2, Iterations

VARIABLES log, done, open

recVars == <<log, done, open>>

TotalToggles == 2 * Iterations
Toggle(n) == IF n % 2 = 1 THEN Gpa1 ELSE Gpa2

\* The log after the victim's next toggle is observed.
Logged == Append(log, Toggle(done + 1))

Init ==
  /\ log = <<>>
  /\ done = 0
  /\ open = TRUE

\* The capture observes the toggle the victim is about to execute.
Observe ==
  /\ open
  /\ Len(log) = done
  /\ done < TotalToggles
  /\ log' = Logged
  /\ UNCHANGED <<done, open>>

\* The victim executes the toggle just logged.
Execute ==
  /\ open
  /\ Len(log) = done + 1
  /\ done' = done + 1
  /\ UNCHANGED <<log, open>>

\* The capture stops, possibly after logging the toggle it observed.
Stop ==
  /\ open
  /\ open' = FALSE
  /\ \/ log' = log
     \/ Len(log) = done /\ done < TotalToggles /\ log' = Logged
  /\ UNCHANGED done

Next == Observe \/ Execute \/ Stop

Spec == Init /\ [][Next]_recVars

=============================================================================
