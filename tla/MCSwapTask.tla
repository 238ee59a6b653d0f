----------------------------- MODULE MCSwapTask -----------------------------
(* Small instances of SwapTask for TLC. *)
EXTENDS SwapTask, TLC

CONSTANTS e1, e2, u1, u2, w1, w2

OneUser == [e \in Executions |-> u1]
UserEach == [e \in Executions |-> IF e = e1 THEN u1 ELSE u2]

\* Different amounts: a hold returned for the wrong execution shows.
Amounts == [e \in Executions |-> IF e = e1 THEN 1 ELSE 2]

\* Enough for both executions, or for one at a time.
Rich == [u \in Users |-> 3]
Poor == [u \in Users |-> 2]
Tight == [u \in Users |-> 1]

NoAllowance == [e \in Executions |-> FALSE]
FirstNeedsAllowance == [e \in Executions |-> e = e1]

WorkerSymmetry == Permutations(Workers)
=============================================================================
