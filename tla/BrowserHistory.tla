--------------------------- MODULE BrowserHistory ---------------------------
(* What Back, Forward and a new visit promise the user of a file window. *)
EXTENDS Naturals, Sequences

CONSTANTS Places, Start

VARIABLES behind, \* the places Back leads to, the nearest last
          at,     \* the place shown
          ahead   \* the places Forward leads to, the nearest first

historyVars == <<behind, at, ahead>>

HistoryInit == behind = <<>> /\ at = Start /\ ahead = <<>>

\* Going to a place that is not shown forgets what was ahead.
Visit(p) == /\ p # at
            /\ behind' = Append(behind, at) /\ at' = p /\ ahead' = <<>>

StepBack ==
  /\ behind # <<>>
  /\ at' = behind[Len(behind)] /\ behind' = SubSeq(behind, 1, Len(behind) - 1)
  /\ ahead' = <<at>> \o ahead

StepForward ==
  /\ ahead # <<>>
  /\ at' = Head(ahead) /\ ahead' = Tail(ahead)
  /\ behind' = Append(behind, at)

HistoryNext == (\E p \in Places : Visit(p)) \/ StepBack \/ StepForward

HistorySpec == HistoryInit /\ [][HistoryNext]_historyVars
=============================================================================
