------------------------------ MODULE UtilWindow ------------------------------
(***************************************************************************)
(* What HS promises about CPU utilization: the average and the peak are    *)
(* those of a window of the latest intervals, newest first.  Every one of  *)
(* them that was measured counts as what was measured; what one that could *)
(* not be measured counts as is not said here, only that it counts as the  *)
(* same for both.  There are no slots and indices here.                    *)
(***************************************************************************)
EXTENDS Integers, FiniteSetsExt, Functions

CONSTANTS
  Peak,      \* intervals in the window, at least one
  Average,   \* the latest of them that the average is of, 1 .. Peak
  Levels,    \* utilization of an interval, natural numbers with 0
  NotKnown   \* what is reported when it could not be measured

VARIABLES
  window,    \* what the latest intervals measured, window[1] the newest
  reported   \* [avg, peak] of the latest report

WindowTypeOK ==
  /\ window \in [1 .. Peak -> Levels \cup {NotKnown}]
  /\ reported \in [avg : Nat \cup {NotKnown}, peak : Levels \cup {NotKnown}]

WindowInit ==
  /\ window = [i \in 1 .. Peak |-> 0]
  /\ reported = [avg |-> 0, peak |-> 0]

Shift(newest) == [i \in 1 .. Peak |-> IF i = 1 THEN newest ELSE window[i - 1]]

CountsAs(measured, counted) == \A i \in 1 .. Peak : measured[i] \in {counted[i], NotKnown}

Report(counted) ==
  [avg  |-> SumFunctionOnSet(counted, 1 .. Average) \div Average,
   peak |-> Max({counted[i] : i \in 1 .. Peak})]

Measured(level) ==
  /\ window' = Shift(level)
  /\ \E counted \in [1 .. Peak -> Levels] : CountsAs(window', counted) /\ reported' = Report(counted)

NotMeasured ==
  /\ window' = Shift(NotKnown)
  /\ reported' = [avg |-> NotKnown, peak |-> NotKnown]

WindowRestart ==
  /\ window' = [i \in 1 .. Peak |-> 0]
  /\ reported' = [avg |-> 0, peak |-> 0]

WindowNext == (\E level \in Levels : Measured(level)) \/ NotMeasured \/ WindowRestart

WindowSpec == WindowInit /\ [][WindowNext]_<<window, reported>>
=============================================================================
